---- MODULE Spec2Model ----
(***************************************************************************)
(* A model of SMXDevice (sdk/Windows/SMXDevice.cpp): the session layer of  *)
(* one StepManiaX pad.  Every public operation runs with the session lock  *)
(* held from entry to return, so each is one atomic action.  The transport *)
(* (SMXDeviceConnection) and the pad's firmware are not part of            *)
(* SMXDevice.cpp; they are modelled from the interface the session uses.   *)
(***************************************************************************)
EXTENDS Integers, Sequences, FiniteSets, TLC

(***************************************************************************)
(* Bounds of the model.                                                    *)
(***************************************************************************)
\* Commands that may stay queued on the transport: the application queues no
\* command beyond it, and the I/O pump leaves no more than it unsent.
MaxPending == 2
\* Packets that may stay in flight from the pad when the I/O pump returns.
MaxInFlight == 1
\* Packets that may stay buffered in the transport after a failed I/O pump.
MaxBuffered == 1
\* Number of clock advances in one behaviour.
MaxTicks == 2

(***************************************************************************)
(* Program constants.                                                      *)
(***************************************************************************)
\* sizeof(SMXConfig), scaled down: the record is opaque to the session.
ConfigSize == 2
\* sizeof(detail_data): 1 byte of flags, four int16_t, 1 byte of DIP.
DetailSize == 10
NumPanels == 9
NumSensors == 4
\* Milliseconds after which an unanswered sensor test request is reissued.
TestModeTimeout == 2000
\* Packet tags 'g' and 'y'.
TagG == 103
TagY == 121
\* SensorTestMode_Off, and the two modes the firmware answers ('0', '1').
SensorTestMode_Off == 0
SensorTestMode_UncalibratedValues == 48
SensorTestMode_CalibratedValues == 49

SensorTestModes ==
    {SensorTestMode_Off, SensorTestMode_UncalibratedValues, SensorTestMode_CalibratedValues}

\* The configuration values the application and the pad choose from.
Configs == {<<0, 0>>, <<1, 1>>}
\* The configuration the pad holds after a factory reset.
FactoryConfig == <<0, 0>>
\* The word streams the pad answers a sensor test request with: panel 0 sends a
\* bad header, panel 1 flags its sensor 0, the other panels send zeroes.
TestWords == {<<1, 511, 0, 2>>}
\* The clock advances the model takes.
TickSteps == {1, 1999}

VARIABLES
    connOpen,                  \* m_pConnection->IsConnected()
    haveInfo,                  \* the transport has read the device info
    active,                    \* m_pConnection->GetActive()
    pending,                   \* commands queued on the transport, oldest first
    readBuf,                   \* packets the transport has received, oldest first
    devConfig,                 \* the configuration stored in the pad
    devOut,                    \* packets the pad has sent and the host has not received
    config,                    \* SMXDevice::config
    wanted_config,             \* SMXDevice::wanted_config
    m_bHaveConfig,
    m_bSendConfig,
    m_bSendingConfig,
    m_SensorTestMode,
    m_WaitingForSensorTestModeResponse,
    m_SentSensorTestModeRequestAtTicks,
    m_HaveSensorTestModeData,
    m_SensorTestData,
    m_pUpdateCallback,         \* TRUE when an update callback is registered
    m_hEvent,                  \* TRUE when the session holds a wake event
    now,                       \* GetTickCount()
    ticks,                     \* clock advances taken so far
    lastOp,                    \* the name of the last operation
    pendingH,                  \* history: "pending" after SetConfig until a write is
                               \* queued ("none") or the device is closed ("dropped")
    readbackSeen,              \* history: a 'g' packet was processed since the last open
    deadSend,                  \* history: SendCommand was called on a closed transport
    handshakes,                \* history: panel resets queued by Update since the last open
    m_iLockedByThread,         \* the thread that holds m_Lock, 0 when it is free
    thread,                    \* for each thread, the call it is in and where
    calls                      \* calls begun by the threads so far

\* The state of the session, of its transport and of the pad.
session == <<connOpen, haveInfo, active, pending, readBuf, devConfig, devOut,
             config, wanted_config, m_bHaveConfig, m_bSendConfig, m_bSendingConfig,
             m_SensorTestMode, m_WaitingForSensorTestModeResponse,
             m_SentSensorTestModeRequestAtTicks, m_HaveSensorTestModeData,
             m_SensorTestData, m_pUpdateCallback, m_hEvent, now, ticks, lastOp, pendingH,
             readbackSeen, deadSend, handshakes>>

vars == <<session, m_iLockedByThread, thread, calls>>

(***************************************************************************)
(* Helpers.                                                                *)
(***************************************************************************)
Min(a, b) == IF a < b THEN a ELSE b

Pow2(n) == 2 ^ n

\* Bit b of the unsigned value v.
BitOf(v, b) == (v \div Pow2(b)) % 2

\* A thing an operation did: t is its kind, c its name and d its payload.
Event(t, c, d) == [t |-> t, c |-> c, d |-> d]

\* A queued command: c is its tag, d its payload and done its completion.
Command(c, d, done) == [c |-> c, d |-> d, done |-> done]

RECURSIVE SeqCount(_, _)
SeqCount(s, c) ==
    IF s = <<>> THEN 0
    ELSE (IF Head(s).c = c THEN 1 ELSE 0) + SeqCount(Tail(s), c)

\* The events of kind t and name c in a sequence of events.
EventsOf(es, t, c) == SelectSeq(es, LAMBDA e : e.t = t /\ e.c = c)

Has(es, t, c) == \E i \in 1..Len(es) : es[i].t = t /\ es[i].c = c

ZeroPanel == [have |-> FALSE, bad |-> <<0, 0, 0, 0>>, sensors |-> <<0, 0, 0, 0>>, dip |-> 0]

ZeroTestData == [p \in 0..(NumPanels - 1) |-> ZeroPanel]

(***************************************************************************)
(* The session's state as one record, so that the steps of an operation    *)
(* compose; ev collects what the operation did, in order.                  *)
(***************************************************************************)
Cur ==
    [connOpen |-> connOpen, haveInfo |-> haveInfo, active |-> active,
     pending |-> pending, readBuf |-> readBuf, inputChanged |-> FALSE,
     devConfig |-> devConfig, devOut |-> devOut,
     config |-> config, wanted_config |-> wanted_config,
     m_bHaveConfig |-> m_bHaveConfig, m_bSendConfig |-> m_bSendConfig,
     m_bSendingConfig |-> m_bSendingConfig,
     m_SensorTestMode |-> m_SensorTestMode,
     waiting |-> m_WaitingForSensorTestModeResponse,
     sentAt |-> m_SentSensorTestModeRequestAtTicks,
     haveTest |-> m_HaveSensorTestModeData,
     testData |-> m_SensorTestData,
     m_pUpdateCallback |-> m_pUpdateCallback, m_hEvent |-> m_hEvent,
     ev |-> <<>>]

Commit(st) ==
    /\ connOpen' = st.connOpen
    /\ haveInfo' = st.haveInfo
    /\ active' = st.active
    /\ pending' = st.pending
    /\ readBuf' = st.readBuf
    /\ devConfig' = st.devConfig
    /\ devOut' = st.devOut
    /\ config' = st.config
    /\ wanted_config' = st.wanted_config
    /\ m_bHaveConfig' = st.m_bHaveConfig
    /\ m_bSendConfig' = st.m_bSendConfig
    /\ m_bSendingConfig' = st.m_bSendingConfig
    /\ m_SensorTestMode' = st.m_SensorTestMode
    /\ m_WaitingForSensorTestModeResponse' = st.waiting
    /\ m_SentSensorTestModeRequestAtTicks' = st.sentAt
    /\ m_HaveSensorTestModeData' = st.haveTest
    /\ m_SensorTestData' = st.testData
    /\ m_pUpdateCallback' = st.m_pUpdateCallback
    /\ m_hEvent' = st.m_hEvent

Did(st, t, c, d) == [st EXCEPT !.ev = Append(@, Event(t, c, d))]


(***************************************************************************)
(* The transport and the pad, modelled from the interface the session      *)
(* uses: a FIFO of commands, each with a completion callback that fires    *)
(* once when the command has been written to the pad.                      *)
(***************************************************************************)
\* SMXDeviceConnection::SendCommand: queue a command.
ConnSendCommand(st, cmd) == [st EXCEPT !.pending = Append(@, cmd)]

\* SMXDeviceConnection::Close: drop the handle and everything queued on it.
ConnClose(st) ==
    [st EXCEPT !.connOpen = FALSE, !.haveInfo = FALSE, !.active = FALSE,
               !.pending = <<>>, !.readBuf = <<>>, !.devOut = <<>>]

\* The bytes of a configuration readback: 'g', the length, the record.
GPacket(cfg) == <<TagG, Len(cfg)>> \o cfg

RECURSIVE WordBytes(_)
WordBytes(ws) ==
    IF ws = <<>> THEN <<>>
    ELSE <<Head(ws) % 256, Head(ws) \div 256>> \o WordBytes(Tail(ws))

\* The bytes of a sensor test response: 'y', the mode, the word count, the words.
YPacket(mode, ws) == <<TagY, mode, Len(ws)>> \o WordBytes(ws)

\* What the pad does with a command it has received.
DeviceReceive(st, cmd, yw) ==
    CASE cmd.c = "w" -> [st EXCEPT !.devConfig = cmd.d]
      [] cmd.c = "f" -> [st EXCEPT !.devConfig = FactoryConfig]
      [] cmd.c = "g" -> [st EXCEPT !.devOut = Append(@, GPacket(st.devConfig))]
      [] cmd.c = "y" -> [st EXCEPT !.devOut = Append(@, YPacket(cmd.d[1], yw))]
      [] OTHER -> st

(***************************************************************************)
(* SMXDevice.                                                              *)
(***************************************************************************)
CallUpdateCallback(st, reason) ==
    IF ~st.m_pUpdateCallback THEN st
    ELSE Did(st, "cb", reason, <<>>)

\* A variant that reports the device as connected before its configuration is read.
IsConnectedNoConfig(st) == st.connOpen /\ st.haveInfo

IsConnectedLocked(st) == st.connOpen /\ st.haveInfo /\ st.m_bHaveConfig

GetInfoLocked(st) == [m_bConnected |-> IsConnectedLocked(st)]

\* A variant that always returns the configuration read last.
GetConfigOutConfirmed(st) == [configOut |-> st.config, ret |-> st.m_bHaveConfig]

GetConfigOut(st) ==
    [configOut |-> IF st.m_bSendConfig THEN st.wanted_config ELSE st.config,
     ret |-> st.m_bHaveConfig]

GetTestDataOut(st) == st.haveTest

\* The body of SMXDevice::SetSensorTestMode.
SetSensorTestModeTo(st, mode) == [st EXCEPT !.m_SensorTestMode = mode]

\* A variant that queues the command whether or not the transport is connected.
SendCommandAlways(st, c, d, done) ==
    LET s1 == Did(ConnSendCommand(st, Command(c, d, done)), "enq", c, d)
    IN IF st.m_hEvent THEN Did(s1, "wake", c, <<>>) ELSE s1

SendCommandLocked(st, c, d, done) ==
    IF st.connOpen
    THEN LET s1 == Did(ConnSendCommand(st, Command(c, d, done)), "enq", c, d)
         IN IF st.m_hEvent THEN Did(s1, "wake", c, <<>>) ELSE s1
    ELSE st

\* A variant whose factory reset completion raises the generic reason.
RunCompleteUpdated(st, done) ==
    CASE done = "sending" -> [st EXCEPT !.m_bSendingConfig = FALSE]
      [] done = "freset" -> CallUpdateCallback(st, "Updated")
      [] OTHER -> st

\* The completion callbacks the session passes to SendCommandLocked.
RunComplete(st, done) ==
    CASE done = "sending" -> [st EXCEPT !.m_bSendingConfig = FALSE]
      [] done = "freset" -> CallUpdateCallback(st, "FactoryResetCommandComplete")
      [] OTHER -> st

\* A variant that keeps the configuration flags across a close.
CloseDeviceKeepFlags(st) == CallUpdateCallback(ConnClose(st), "Updated")

CloseDevice(st) ==
    LET s1 == ConnClose(st)
        s2 == [s1 EXCEPT !.m_bHaveConfig = FALSE, !.m_bSendConfig = FALSE]
    IN CallUpdateCallback(s2, "Updated")

FactoryResetLocked(st) ==
    LET s1 == SendCommandLocked(st, "f", <<>>, "none")
    IN SendCommandLocked(s1, "g", <<>>, "freset")

\* A variant that does not mark the connection as activated.
CheckActiveAgain(st) ==
    IF ~(st.connOpen /\ st.haveInfo) \/ st.active THEN st
    ELSE SendCommandLocked(SendCommandLocked(st, "R", <<>>, "none"), "g", <<>>, "none")

CheckActive(st) ==
    IF ~(st.connOpen /\ st.haveInfo) \/ st.active THEN st
    ELSE LET s1 == [st EXCEPT !.active = TRUE]
             s2 == SendCommandLocked(s1, "R", <<>>, "none")
         IN SendCommandLocked(s2, "g", <<>>, "none")

\* A variant that writes again while a write is in flight.
SendConfigFlood(st) ==
    IF ~st.connOpen \/ ~st.m_bSendConfig THEN st
    ELSE IF ~st.m_bHaveConfig THEN st
    ELSE LET s1 == [st EXCEPT !.m_bSendingConfig = TRUE]
             s2 == SendCommandLocked(s1, "w", st.wanted_config, "sending")
             s3 == [s2 EXCEPT !.m_bSendConfig = FALSE, !.config = st.wanted_config]
         IN SendCommandLocked(s3, "g", <<>>, "none")

\* A variant that skips the write when the wanted configuration is the one read last.
SendConfigDiff(st) ==
    IF ~st.connOpen \/ ~st.m_bSendConfig \/ st.m_bSendingConfig THEN st
    ELSE IF ~st.m_bHaveConfig THEN st
    ELSE IF st.wanted_config = st.config THEN [st EXCEPT !.m_bSendConfig = FALSE]
    ELSE LET s1 == [st EXCEPT !.m_bSendingConfig = TRUE]
             s2 == SendCommandLocked(s1, "w", st.wanted_config, "sending")
             s3 == [s2 EXCEPT !.m_bSendConfig = FALSE, !.config = st.wanted_config]
         IN SendCommandLocked(s3, "g", <<>>, "none")

\* A variant that writes before the pad's configuration was read.
SendConfigUnread(st) ==
    IF ~st.connOpen \/ ~st.m_bSendConfig \/ st.m_bSendingConfig THEN st
    ELSE LET s1 == [st EXCEPT !.m_bSendingConfig = TRUE]
             s2 == SendCommandLocked(s1, "w", st.wanted_config, "sending")
             s3 == [s2 EXCEPT !.m_bSendConfig = FALSE, !.config = st.wanted_config]
         IN SendCommandLocked(s3, "g", <<>>, "none")

SendConfig(st) ==
    IF ~st.connOpen \/ ~st.m_bSendConfig \/ st.m_bSendingConfig THEN st
    ELSE IF ~st.m_bHaveConfig THEN st
    ELSE LET s1 == [st EXCEPT !.m_bSendingConfig = TRUE]
             s2 == SendCommandLocked(s1, "w", st.wanted_config, "sending")
             s3 == [s2 EXCEPT !.m_bSendConfig = FALSE, !.config = st.wanted_config]
         IN SendCommandLocked(s3, "g", <<>>, "none")

\* A variant that still waits when exactly the limit has elapsed.
TicksSinceAtMost(a, b, limit) == a >= b /\ a - b <= limit

\* now - m_SentSensorTestModeRequestAtTicks < limit in uint32_t arithmetic, for
\* tick counts below 2^31: when a < b the difference wraps to at least 2^31.
TicksSinceLess(a, b, limit) == a >= b /\ a - b < limit

UpdateTestMode(st, tick) ==
    IF st.m_SensorTestMode = SensorTestMode_Off THEN st
    ELSE IF /\ st.waiting # SensorTestMode_Off
            /\ TicksSinceLess(tick, st.sentAt, TestModeTimeout)
    THEN st
    ELSE LET s1 == [st EXCEPT !.waiting = st.m_SensorTestMode, !.sentAt = tick]
         IN SendCommandLocked(s1, "y", <<st.m_SensorTestMode>>, "none")

(***************************************************************************)
(* Sensor test responses.                                                  *)
(***************************************************************************)
\* The inner loop of ReadDataForPanel: bits j..7 of one output byte.  The
\* result is <<the byte, the bit cursor>>.
RECURSIVE ReadBits(_, _, _, _, _)
ReadBits(data, iPanel, iBit, j, result) ==
    IF j = 8 THEN <<result, iBit>>
    ELSE IF iBit < Len(data)
    THEN ReadBits(data, iPanel, iBit + 1, j + 1,
                  result + BitOf(data[iBit + 1], iPanel) * Pow2(j))
    ELSE ReadBits(data, iPanel, iBit, j + 1, result)

\* The outer loop of ReadDataForPanel: output bytes i..iOutSize-1.
RECURSIVE ReadBytes(_, _, _, _, _)
ReadBytes(data, iPanel, iBit, i, iOutSize) ==
    IF i >= iOutSize THEN <<>>
    ELSE LET r == ReadBits(data, iPanel, iBit, 0, 0)
         IN <<r[1]>> \o ReadBytes(data, iPanel, r[2], i + 1, iOutSize)

\* A variant whose bit cursor runs on from one panel to the next.
ReadDataForPanelShared(data, iPanel, iOutSize) ==
    ReadBytes(data, iPanel, iPanel * 8 * iOutSize, 0, iOutSize)

ReadDataForPanel(data, iPanel, iOutSize) == ReadBytes(data, iPanel, 0, 0, iOutSize)

\* An int16_t read from two bytes, low byte first.
Int16(lo, hi) ==
    LET u == lo + 256 * hi IN IF u >= 32768 THEN u - 65536 ELSE u

\* A variant that keeps what it decoded for a panel whose header is bad.
DecodePanelKeep(b) ==
    [have |-> ~(BitOf(b[1], 0) # 0 \/ BitOf(b[1], 1) # 1 \/ BitOf(b[1], 2) # 0),
     bad |-> <<BitOf(b[1], 3), BitOf(b[1], 4), BitOf(b[1], 5), BitOf(b[1], 6)>>,
     sensors |-> [i \in 1..NumSensors |-> Int16(b[2 * i], b[2 * i + 1])],
     dip |-> b[DetailSize] % 16]

\* struct detail_data laid over the bytes read for one panel, and the
\* panel's part of SMXSensorTestModeData.
DecodePanel(b) ==
    IF BitOf(b[1], 0) # 0 \/ BitOf(b[1], 1) # 1 \/ BitOf(b[1], 2) # 0
    THEN ZeroPanel
    ELSE [have |-> TRUE,
          bad |-> <<BitOf(b[1], 3), BitOf(b[1], 4), BitOf(b[1], 5), BitOf(b[1], 6)>>,
          sensors |-> [i \in 1..NumSensors |-> Int16(b[2 * i], b[2 * i + 1])],
          dip |-> b[DetailSize] % 16]

\* The words of a response whose byte count is iSize (the loop at i = 3).
RECURSIVE ReadWords(_, _, _)
ReadWords(buf, i, iSize) ==
    IF i >= iSize + 3 THEN <<>>
    ELSE <<buf[i + 2] * 256 + buf[i + 1]>> \o ReadWords(buf, i + 2, iSize)

\* The loop over the panels: SMXSensorTestModeData for the words of a response.
DecodeTestData(data) ==
    [p \in 0..(NumPanels - 1) |-> DecodePanel(ReadDataForPanel(data, p, DetailSize))]

\* DecodeTestData of the word streams the pad answers with, computed once.
DecodedOfTestWords == [ws \in TestWords |-> DecodeTestData(ws)]

DecodedTestData(data) ==
    IF data \in TestWords THEN DecodedOfTestWords[data] ELSE DecodeTestData(data)

\* A variant that takes a response for another mode as the end of the round trip.
HandleSensorTestDataResponseResolve(st, buf) ==
    IF Len(buf) < 3 THEN st
    ELSE LET iSize == (buf[3] * 2) % 256
             iMode == buf[2]
         IN IF Len(buf) < iSize + 3 THEN st
            ELSE IF st.waiting = SensorTestMode_Off THEN Did(st, "log", "unexpected", <<>>)
            ELSE LET s1 == [st EXCEPT !.waiting = SensorTestMode_Off]
                 IN IF iMode # st.waiting THEN Did(s1, "log", "mismatch", <<>>)
                    ELSE IF iMode # s1.m_SensorTestMode THEN s1
                    ELSE LET data == ReadWords(buf, 3, iSize)
                             s2 == [s1 EXCEPT !.haveTest = TRUE,
                                              !.testData = DecodedTestData(data)]
                         IN CallUpdateCallback(Did(s2, "decoded", "y", data), "Updated")

\* A variant that decodes the awaited response whatever mode is selected now.
HandleSensorTestDataResponseAnyMode(st, buf) ==
    IF Len(buf) < 3 THEN st
    ELSE LET iSize == (buf[3] * 2) % 256
             iMode == buf[2]
         IN IF Len(buf) < iSize + 3 THEN st
            ELSE IF st.waiting = SensorTestMode_Off THEN Did(st, "log", "unexpected", <<>>)
            ELSE IF iMode # st.waiting THEN Did(st, "log", "mismatch", <<>>)
            ELSE LET s1 == [st EXCEPT !.waiting = SensorTestMode_Off]
                     data == ReadWords(buf, 3, iSize)
                     s2 == [s1 EXCEPT !.haveTest = TRUE,
                                      !.testData = DecodedTestData(data)]
                 IN CallUpdateCallback(Did(s2, "decoded", "y", data), "Updated")

HandleSensorTestDataResponse(st, buf) ==
    IF Len(buf) < 3 THEN st
    ELSE LET iSize == (buf[3] * 2) % 256
             iMode == buf[2]
         IN IF Len(buf) < iSize + 3 THEN st
            ELSE IF st.waiting = SensorTestMode_Off THEN Did(st, "log", "unexpected", <<>>)
            ELSE IF iMode # st.waiting THEN Did(st, "log", "mismatch", <<>>)
            ELSE LET s1 == [st EXCEPT !.waiting = SensorTestMode_Off]
                 IN IF iMode # s1.m_SensorTestMode THEN s1
                    ELSE LET data == ReadWords(buf, 3, iSize)
                             s2 == [s1 EXCEPT !.haveTest = TRUE,
                                              !.testData = DecodedTestData(data)]
                         IN CallUpdateCallback(Did(s2, "decoded", "y", data), "Updated")

\* A variant that zeroes the bytes of config the packet does not cover.
HandleConfigPacketZeroFill(st, buf) ==
    IF Len(buf) < 2 THEN Did(st, "log", "invalid", <<>>)
    ELSE LET iSize == buf[2]
             n == Min(iSize, ConfigSize)
         IN IF Len(buf) < iSize + 2 THEN Did(st, "log", "invalid", <<>>)
            ELSE LET s1 == [st EXCEPT
                              !.config = [i \in 1..ConfigSize |->
                                             IF i <= n THEN buf[i + 2] ELSE 0],
                              !.m_bHaveConfig = TRUE]
                 IN CallUpdateCallback(Did(s1, "readback", "g", SubSeq(buf, 3, n + 2)), "Updated")

\* The 'g' case of HandlePackets.
HandleConfigPacket(st, buf) ==
    IF Len(buf) < 2 THEN Did(st, "log", "invalid", <<>>)
    ELSE LET iSize == buf[2]
             n == Min(iSize, ConfigSize)
         IN IF Len(buf) < iSize + 2 THEN Did(st, "log", "invalid", <<>>)
            ELSE LET s1 == [st EXCEPT
                              !.config = [i \in 1..ConfigSize |->
                                             IF i <= n THEN buf[i + 2] ELSE st.config[i]],
                              !.m_bHaveConfig = TRUE]
                 IN CallUpdateCallback(Did(s1, "readback", "g", SubSeq(buf, 3, n + 2)), "Updated")

RECURSIVE HandlePackets(_)
HandlePackets(st) ==
    IF st.readBuf = <<>> THEN st
    ELSE LET buf == Head(st.readBuf)
             s1 == [st EXCEPT !.readBuf = Tail(@)]
         IN IF buf = <<>> THEN HandlePackets(s1)
            ELSE IF buf[1] = TagY
            THEN HandlePackets(HandleSensorTestDataResponse(Did(s1, "pkt", "y", buf), buf))
            ELSE IF buf[1] = TagG
            THEN HandlePackets(HandleConfigPacket(Did(s1, "pkt", "g", buf), buf))
            ELSE HandlePackets(Did(s1, "pkt", "other", buf))

(***************************************************************************)
(* The transport's I/O pump, as SMXDevice::Update sees it.                 *)
(***************************************************************************)
\* Write the k oldest commands to the pad; each one's completion fires
\* when it has been written.
RECURSIVE Flush(_, _, _)
Flush(st, k, yw) ==
    IF k = 0 \/ st.pending = <<>> THEN st
    ELSE LET cmd == Head(st.pending)
             s1 == Did([st EXCEPT !.pending = Tail(@)], "sent", cmd.c, cmd.d)
             s2 == DeviceReceive(s1, cmd, yw)
             s3 == RunComplete(Did(s2, "done", cmd.done, <<>>), cmd.done)
         IN Flush(s3, k - 1, yw)

\* Receive the j oldest packets in flight.
Receive(st, j) ==
    [st EXCEPT !.readBuf = @ \o SubSeq(st.devOut, 1, j),
               !.devOut = SubSeq(@, j + 1, Len(@))]

\* SMXDeviceConnection::Update.  inp tells whether GetInputState() differs
\* after it from what it was before it.
ConnUpdate(st, k, j, info, inp, yw) ==
    LET s1 == Flush(Did(st, "pump", "begin", <<>>), k, yw)
        s2 == Receive(s1, j)
    IN [s2 EXCEPT !.haveInfo = @ \/ info, !.inputChanged = inp]

(***************************************************************************)
(* The operations.                                                         *)
(***************************************************************************)
\* The threads: the pump thread, which calls Update, OpenDeviceHandle and
\* CloseDevice, and the application's threads.
NumThreads == 3
Threads == 1..NumThreads
PumpThread == 1
Outside == [f |-> "none", at |-> "outside"]

\* ~LockMutex at the end of an operation: the thread holding m_Lock releases
\* it and is outside again.  An operation taken in one step, with m_Lock free
\* before it, leaves m_Lock free.
Unlock ==
    /\ m_iLockedByThread' = 0
    /\ thread' = [t \in Threads |-> IF t = m_iLockedByThread THEN Outside ELSE thread[t]]
    /\ UNCHANGED calls

Init ==
    /\ m_iLockedByThread = 0
    /\ thread = [t \in Threads |-> Outside]
    /\ calls = 0
    /\ connOpen = FALSE
    /\ haveInfo = FALSE
    /\ active = FALSE
    /\ pending = <<>>
    /\ readBuf = <<>>
    /\ devConfig \in Configs
    /\ devOut = <<>>
    /\ config = [i \in 1..ConfigSize |-> 0]
    /\ wanted_config = [i \in 1..ConfigSize |-> 0]
    /\ m_bHaveConfig = FALSE
    /\ m_bSendConfig = FALSE
    /\ m_bSendingConfig = FALSE
    /\ m_SensorTestMode = SensorTestMode_Off
    /\ m_WaitingForSensorTestModeResponse = SensorTestMode_Off
    /\ m_SentSensorTestModeRequestAtTicks = 0
    /\ m_HaveSensorTestModeData = FALSE
    /\ m_SensorTestData = ZeroTestData
    /\ m_pUpdateCallback = FALSE
    /\ m_hEvent = TRUE
    /\ now = 0
    /\ ticks = 0
    /\ lastOp = "Create"
    /\ pendingH = "none"
    /\ readbackSeen = FALSE
    /\ deadSend = FALSE
    /\ handshakes = 0

\* SMXDevice::OpenDeviceHandle, on a slot that holds no device.
OpenDeviceHandle ==
    /\ ~connOpen
    /\ Commit([Cur EXCEPT !.connOpen = TRUE])
    /\ lastOp' = "OpenDeviceHandle"
    /\ readbackSeen' = FALSE
    /\ handshakes' = 0
    /\ Unlock
    /\ UNCHANGED <<now, ticks, pendingH, deadSend>>

DoCloseDevice ==
    \E st \in {CloseDevice(Cur)} :
       /\ Commit(st)
       /\ lastOp' = "CloseDevice"
       /\ pendingH' = (IF pendingH = "pending" THEN "dropped" ELSE pendingH)
       /\ Unlock
       /\ UNCHANGED <<handshakes, now, ticks, readbackSeen, deadSend>>

SetUpdateCallback ==
    /\ ~m_pUpdateCallback
    /\ Commit([Cur EXCEPT !.m_pUpdateCallback = TRUE])
    /\ lastOp' = "SetUpdateCallback"
    /\ Unlock
    /\ UNCHANGED <<handshakes, now, ticks, pendingH, readbackSeen, deadSend>>

IsConnected ==
    /\ Commit(Cur)
    /\ lastOp' = "IsConnected"
    /\ Unlock
    /\ UNCHANGED <<handshakes, now, ticks, pendingH, readbackSeen, deadSend>>

GetInfo ==
    /\ Commit(Cur)
    /\ lastOp' = "GetInfo"
    /\ Unlock
    /\ UNCHANGED <<handshakes, now, ticks, pendingH, readbackSeen, deadSend>>

GetConfig ==
    /\ Commit(Cur)
    /\ lastOp' = "GetConfig"
    /\ Unlock
    /\ UNCHANGED <<handshakes, now, ticks, pendingH, readbackSeen, deadSend>>

SetConfig ==
    \E newConfig \in Configs :
        /\ Commit([Cur EXCEPT !.wanted_config = newConfig, !.m_bSendConfig = TRUE])
        /\ lastOp' = "SetConfig"
        /\ pendingH' = "pending"
        /\ Unlock
        /\ UNCHANGED <<handshakes, now, ticks, readbackSeen, deadSend>>

\* The caller's completion is named after the connection's state at the call.
SendCommand ==
    /\ Len(pending) < MaxPending
    /\ \E st \in {SendCommandLocked(Cur, "u", <<>>,
                                     IF connOpen THEN "user" ELSE "userDead")} :
          /\ Commit(st)
          /\ lastOp' = "SendCommand"
    /\ deadSend' = (deadSend \/ ~connOpen)
    /\ Unlock
    /\ UNCHANGED <<handshakes, now, ticks, pendingH, readbackSeen>>

FactoryReset ==
    /\ Len(pending) + 2 <= MaxPending
    /\ \E st \in {FactoryResetLocked(Cur)} :
          /\ Commit(st)
          /\ lastOp' = "FactoryReset"
    /\ Unlock
    /\ UNCHANGED <<handshakes, now, ticks, pendingH, readbackSeen, deadSend>>

ForceRecalibration ==
    /\ Len(pending) < MaxPending
    /\ \E st \in {SendCommandLocked(Cur, "C", <<>>, "none")} :
          /\ Commit(st)
          /\ lastOp' = "ForceRecalibration"
    /\ Unlock
    /\ UNCHANGED <<handshakes, now, ticks, pendingH, readbackSeen, deadSend>>

SetSensorTestMode ==
    \E mode \in SensorTestModes :
        /\ Commit(SetSensorTestModeTo(Cur, mode))
        /\ lastOp' = "SetSensorTestMode"
        /\ Unlock
        /\ UNCHANGED <<handshakes, now, ticks, pendingH, readbackSeen, deadSend>>

GetTestData ==
    /\ Commit(Cur)
    /\ lastOp' = "GetTestData"
    /\ Unlock
    /\ UNCHANGED <<handshakes, now, ticks, pendingH, readbackSeen, deadSend>>

\* The clock advances between operations.
Tick ==
    \E d \in TickSteps :
        /\ ticks < MaxTicks
        /\ now' = now + d
        /\ ticks' = ticks + 1
        /\ UNCHANGED <<m_iLockedByThread, thread, calls>>
        /\ UNCHANGED <<connOpen, haveInfo, active, pending, readBuf, devConfig,
                       devOut, config, wanted_config, m_bHaveConfig, m_bSendConfig,
                       m_bSendingConfig, m_SensorTestMode,
                       m_WaitingForSensorTestModeResponse,
                       m_SentSensorTestModeRequestAtTicks, m_HaveSensorTestModeData,
                       m_SensorTestData, m_pUpdateCallback, m_hEvent, lastOp, pendingH,
                       readbackSeen, deadSend, handshakes>>

\* A variant that asks for sensor test data before it writes the configuration.
UpdateSendTestFirst(st, tick) == SendConfig(UpdateTestMode(CheckActive(st), tick))

\* The commands SMXDevice::Update queues before it pumps the transport.
UpdateSend(st, tick) == UpdateTestMode(SendConfig(CheckActive(st)), tick)

\* A variant that carries on after the pump has reported an error.
UpdateAfterPumpIgnoreError(st, err) ==
    LET s1 == Did(st, "pump", IF err THEN "error" ELSE "ok", <<>>)
        s2 == IF s1.inputChanged
              THEN CallUpdateCallback(Did(s1, "input", "changed", <<>>), "Updated")
              ELSE s1
    IN HandlePackets(s2)

\* What SMXDevice::Update does once the transport's pump has returned.
UpdateAfterPump(st, err) ==
    IF err THEN Did(st, "pump", "error", <<>>)
    ELSE LET s1 == Did(st, "pump", "ok", <<>>)
             s2 == IF s1.inputChanged
                   THEN CallUpdateCallback(Did(s1, "input", "changed", <<>>), "Updated")
                   ELSE s1
         IN HandlePackets(s2)

\* A variant that runs the cycle on a closed transport too.
UpdateLockedNoGuard(st, tick, err, k, j, info, inp, yw) ==
    UpdateAfterPump(ConnUpdate(UpdateSend(st, tick), k, j, info, inp, yw), err)

\* The result of SMXDevice::Update for one outcome of the transport's pump.
UpdateLocked(st, tick, err, k, j, info, inp, yw) ==
    IF ~st.connOpen THEN st
    ELSE LET s1 == UpdateSend(st, tick)
         IN UpdateAfterPump(ConnUpdate(s1, k, j, info, inp, yw), err)

\* The outcomes the transport's pump may have, within the model's bounds:
\* <<err, k, j, info, inp, yw>>.
PumpOutcomes(st, tick) ==
    LET s1 == UpdateSend(st, tick)
        n == Len(s1.pending)
        lo == IF n > MaxPending THEN n - MaxPending ELSE 0
    IN UNION {
         LET s2 == Flush(s1, k, yw)
             m == Len(s2.devOut)
             jlo == IF m > MaxInFlight THEN m - MaxInFlight ELSE 0
         IN { <<err, k, j, info, inp, yw>> :
                err \in BOOLEAN, j \in jlo..m,
                info \in (IF st.haveInfo THEN {TRUE} ELSE BOOLEAN),
                inp \in BOOLEAN }
         : k \in lo..n,
           yw \in (IF \E i \in 1..n : s1.pending[i].c = "y" THEN TestWords ELSE {<<>>}) }

Update ==
    \/ /\ ~connOpen
       /\ \E st \in {UpdateLocked(Cur, now, FALSE, 0, 0, FALSE, FALSE, <<>>)} :
            /\ Commit(st)
            /\ lastOp' = "Update"
       /\ Unlock
       /\ UNCHANGED <<handshakes, now, ticks, pendingH, readbackSeen, deadSend>>
    \/ /\ connOpen
       /\ \E o \in PumpOutcomes(Cur, now) :
            \E st \in {UpdateLocked(Cur, now, o[1], o[2], o[3], o[4], o[5], o[6])} :
               /\ o[1] => Len(st.readBuf) <= MaxBuffered
               /\ Commit(st)
               /\ lastOp' = "Update"
               /\ pendingH' = (IF Has(st.ev, "enq", "w") THEN "none" ELSE pendingH)
               /\ readbackSeen' = (readbackSeen \/ Has(st.ev, "readback", "g"))
               /\ handshakes' = handshakes + Len(EventsOf(st.ev, "enq", "R"))
       /\ Unlock
       /\ UNCHANGED <<now, ticks, deadSend>>

(***************************************************************************)
(* Specifications.  Each lets the application use one part of the          *)
(* interface; the pump thread opens, closes and updates in all of them.    *)
(***************************************************************************)
\* The application reads and writes the configuration.
Next ==
    \/ OpenDeviceHandle
    \/ DoCloseDevice
    \/ SetUpdateCallback
    \/ IsConnected
    \/ GetInfo
    \/ GetConfig
    \/ SetConfig
    \/ Update

Spec == Init /\ [][Next]_vars

\* The application sends commands.
NextCmd ==
    \/ OpenDeviceHandle
    \/ DoCloseDevice
    \/ SetUpdateCallback
    \/ SendCommand
    \/ FactoryReset
    \/ ForceRecalibration
    \/ Update

SpecCmd == Init /\ [][NextCmd]_vars

\* The application writes the configuration and uses the sensor test mode.
NextPump ==
    \/ OpenDeviceHandle
    \/ DoCloseDevice
    \/ SetUpdateCallback
    \/ SetConfig
    \/ SetSensorTestMode
    \/ Update

SpecPump == Init /\ [][NextPump]_vars

\* The application uses the sensor test mode while the clock advances.
NextTest ==
    \/ OpenDeviceHandle
    \/ DoCloseDevice
    \/ SetSensorTestMode
    \/ GetTestData
    \/ Tick
    \/ Update

SpecTest == Init /\ [][NextTest]_vars

(***************************************************************************)
(* Decoding of sensor test responses: the session waits for the answer to  *)
(* a request and a response is buffered in the transport, as after an      *)
(* Update whose pump failed.  The response's words and the data decoded    *)
(* before range over the sets below.                                       *)
(***************************************************************************)
\* The first three words of a response: 0 and 509 leave panel 1's bit clear,
\* 2 sets it alone.
HeaderWords == {0, 2, 509}

\* The word at position k after the header: all panels' bits set, or mixed.
TailWord(pattern, k) == IF pattern = "ones" THEN 511 ELSE (k * 37 + 5) % 512

\* The lengths of the responses, in words: detail_data takes 80.
DecodeLengths == {0, 2, 3, 10, 76, 80}

DecodeWords ==
    { SubSeq(<<h[1], h[2], h[3]>> \o [k \in 1..77 |-> TailWord(pattern, k)], 1, n) :
        h \in HeaderWords \X HeaderWords \X HeaderWords,
        pattern \in {"ones", "mixed"}, n \in DecodeLengths }

InitDecode ==
    /\ m_iLockedByThread = 0
    /\ thread = [t \in Threads |-> Outside]
    /\ calls = 0
    /\ connOpen = TRUE
    /\ haveInfo = TRUE
    /\ active = TRUE
    /\ pending = <<>>
    /\ \E ws \in DecodeWords :
          readBuf = <<YPacket(SensorTestMode_UncalibratedValues, ws)>>
    /\ devConfig = FactoryConfig
    /\ devOut = <<>>
    /\ config = FactoryConfig
    /\ wanted_config = FactoryConfig
    /\ m_bHaveConfig = TRUE
    /\ m_bSendConfig = FALSE
    /\ m_bSendingConfig = FALSE
    /\ m_SensorTestMode = SensorTestMode_UncalibratedValues
    /\ m_WaitingForSensorTestModeResponse = SensorTestMode_UncalibratedValues
    /\ m_SentSensorTestModeRequestAtTicks = 0
    /\ \E prev \in {<<>>} \cup TestWords :
          /\ m_HaveSensorTestModeData = (prev # <<>>)
          /\ m_SensorTestData = (IF prev = <<>> THEN ZeroTestData
                                 ELSE DecodedTestData(prev))
    /\ m_pUpdateCallback = TRUE
    /\ m_hEvent = TRUE
    /\ now = 0
    /\ ticks = 0
    /\ lastOp = "Update"
    /\ pendingH = "none"
    /\ readbackSeen = TRUE
    /\ deadSend = FALSE
    /\ handshakes = 1

NextDecode ==
    \/ DoCloseDevice
    \/ Update

SpecDecode == InitDecode /\ [][NextDecode]_vars

(***************************************************************************)
(* Dispatch of buffered packets: the transport holds packets the session   *)
(* has not dispatched yet, as after an Update whose pump failed.  The      *)
(* packets range over well-formed and malformed ones.                      *)
(***************************************************************************)
\* Payload bytes, none of them a byte of a configuration in Configs.
PacketPayload == <<5, 6, 7>>

\* 'g' packets: 'g' alone, or 'g', a declared length and some payload bytes.
ConfigPackets ==
    {<<TagG>>} \cup
    { <<TagG, l>> \o SubSeq(PacketPayload, 1, m) : l \in 0..3, m \in 0..3 }

\* 'y' packets whose declared word count does not fit in 127.
LongCountPackets ==
    { <<TagY, SensorTestMode_UncalibratedValues, n>> \o SubSeq(PacketPayload, 1, m) :
        n \in {128, 129}, m \in {0, 2} }

\* What the transport holds: one packet, or a packet and a readback behind it.
BufferedPackets ==
    { <<p>> : p \in ConfigPackets \cup LongCountPackets } \cup
    { <<p, GPacket(PacketPayload)>> : p \in ConfigPackets \cup LongCountPackets }

InitPackets ==
    /\ m_iLockedByThread = 0
    /\ thread = [t \in Threads |-> Outside]
    /\ calls = 0
    /\ connOpen = TRUE
    /\ haveInfo = TRUE
    /\ active = TRUE
    /\ pending = <<>>
    /\ readBuf \in BufferedPackets
    /\ devConfig = FactoryConfig
    /\ devOut = <<>>
    /\ config \in Configs
    /\ wanted_config = FactoryConfig
    /\ m_bHaveConfig \in BOOLEAN
    /\ m_bSendConfig = FALSE
    /\ m_bSendingConfig = FALSE
    /\ m_SensorTestMode = SensorTestMode_UncalibratedValues
    /\ m_WaitingForSensorTestModeResponse = SensorTestMode_UncalibratedValues
    /\ m_SentSensorTestModeRequestAtTicks = 0
    /\ \E prev \in {<<>>} \cup TestWords :
          /\ m_HaveSensorTestModeData = (prev # <<>>)
          /\ m_SensorTestData = (IF prev = <<>> THEN ZeroTestData
                                 ELSE DecodedTestData(prev))
    /\ m_pUpdateCallback \in BOOLEAN
    /\ m_hEvent = TRUE
    /\ now = 0
    /\ ticks = 0
    /\ lastOp = "Update"
    /\ pendingH = "none"
    /\ readbackSeen = m_bHaveConfig
    /\ deadSend = FALSE
    /\ handshakes = 1

NextPackets ==
    \/ DoCloseDevice
    \/ Update

SpecPackets == InitPackets /\ [][NextPackets]_vars

(***************************************************************************)
(* Progress: the pump thread calls Update again and again, and again and   *)
(* again the transport writes every queued command, receives every packet  *)
(* the pad has sent and knows the device info.                             *)
(***************************************************************************)
NextLive ==
    \/ OpenDeviceHandle
    \/ DoCloseDevice
    \/ SetConfig
    \/ Update

\* An Update in which the transport catches up with everything outstanding:
\* the pump writes every queued command, receives every packet the pad has
\* sent, knows the device info and reports no error.
UpdateCatchesUp ==
    /\ connOpen
    /\ lastOp' = "Update"
    /\ \E yw \in TestWords :
       \E s1 \in {CheckActive(Cur)} :
       \E s2 \in {SendConfig(s1)} :
       \E s3 \in {UpdateTestMode(s2, now)} :
       \E s4 \in {Flush(Did(s3, "pump", "begin", <<>>), Len(s3.pending), yw)} :
       \E s5 \in {Receive(s4, Len(s4.devOut))} :
       \E s6 \in {Did([s5 EXCEPT !.haveInfo = TRUE], "pump", "ok", <<>>)} :
       \E st \in {HandlePackets(s6)} :
            /\ Commit(st)
            /\ pendingH' = (IF Has(st.ev, "enq", "w") THEN "none" ELSE pendingH)
            /\ readbackSeen' = (readbackSeen \/ Has(st.ev, "readback", "g"))
            /\ handshakes' = handshakes + Len(EventsOf(st.ev, "enq", "R"))
    /\ Unlock
    /\ UNCHANGED <<now, ticks, deadSend>>

SpecLive == Init /\ [][NextLive]_vars /\ WF_vars(UpdateCatchesUp)

(***************************************************************************)
(* The threads.  An operation is entered in three steps: the thread calls  *)
(* it, it takes m_Lock, and it runs the operation's body and releases      *)
(* m_Lock.  The application's threads call the public operations, which    *)
(* take m_Lock themselves; the pump thread's caller takes m_Lock around    *)
(* OpenDeviceHandle, CloseDevice and Update, which assert that it is held. *)
(***************************************************************************)
AppCalls ==
    {"GetConfig", "SetConfig", "SendCommand", "SetSensorTestMode", "GetTestData",
     "FactoryReset"}

PumpCalls == {"OpenDeviceHandle", "CloseDevice", "Update"}

CallsOf(t) == IF t = PumpThread THEN PumpCalls ELSE AppCalls

\* The calls the threads begin in one behaviour.
MaxCalls == 3

\* A variant that takes m_Lock without waiting for it to be free.
LockMutexNoWait(t) == m_iLockedByThread' = t

\* LockMutex Lock(m_Lock): waits until m_Lock is free and takes it.
LockMutex(t) ==
    /\ m_iLockedByThread = 0
    /\ m_iLockedByThread' = t

Call ==
    \E t \in Threads, f \in AppCalls \cup PumpCalls :
        /\ f \in CallsOf(t)
        /\ calls < MaxCalls
        /\ thread[t] = Outside
        /\ thread' = [thread EXCEPT ![t] = [f |-> f, at |-> "lock"]]
        /\ calls' = calls + 1
        /\ UNCHANGED <<session, m_iLockedByThread>>

Lock ==
    \E t \in Threads :
        /\ thread[t].at = "lock"
        /\ LockMutex(t)
        /\ thread' = [thread EXCEPT ![t].at = "body"]
        /\ UNCHANGED <<session, calls>>

\* A thread has taken m_Lock in f and not yet run f's body.
InCall(f) == \E t \in Threads : thread[t] = [f |-> f, at |-> "body"]

Run ==
    \/ InCall("GetConfig") /\ GetConfig
    \/ InCall("SetConfig") /\ SetConfig
    \/ InCall("SendCommand") /\ SendCommand
    \/ InCall("SetSensorTestMode") /\ SetSensorTestMode
    \/ InCall("GetTestData") /\ GetTestData
    \/ InCall("FactoryReset") /\ FactoryReset
    \/ InCall("OpenDeviceHandle") /\ OpenDeviceHandle
    \/ InCall("CloseDevice") /\ DoCloseDevice
    \/ InCall("Update") /\ Update

NextLock ==
    \/ Call
    \/ Lock
    \/ Run

SpecLock == Init /\ [][NextLock]_vars

(***************************************************************************)
(* Properties.                                                             *)
(***************************************************************************)
\* A write is pending: SetConfig was called, and since then no write was
\* queued and the device was not closed.
WritePending == pendingH = "pending"

\* SetConfig was called and no write was queued since, closed or not.
WriteNotEmitted == pendingH # "none"

\* The commands an operation queued, in order, from its events.
Enqueued(es) == SelectSeq(es, LAMBDA e : e.t = "enq")

C2_OneWriteInFlight ==
    LET s == UpdateSend(Cur, now)
        ws == EventsOf(s.ev, "enq", "w")
    IN /\ SeqCount(pending, "w") <= 1
       /\ (SeqCount(pending, "w") = 1 => m_bSendingConfig)
       /\ (m_bSendingConfig => ws = <<>>)
       /\ SeqCount(s.pending, "w") <= 1
       /\ \A i \in 1..Len(ws) : ws[i].d = wanted_config
       /\ (connOpen /\ m_bHaveConfig /\ WritePending /\ ~m_bSendingConfig => Len(ws) = 1)

\* SetConfig is called while a write of another value is in flight.
C2_Witness ==
    /\ lastOp = "SetConfig"
    /\ connOpen
    /\ m_bSendingConfig
    /\ WritePending
    /\ \E i \in 1..Len(pending) : pending[i].c = "w" /\ pending[i].d # wanted_config

\* C3: IsConnected and GetInfo's m_bConnected are true exactly when the
\* transport is connected with the device info read and m_bHaveConfig is set;
\* they are false after an open until a configuration readback was processed.
C3_ConnectedNeedsConfig ==
    /\ IsConnectedLocked(Cur) = (connOpen /\ haveInfo /\ m_bHaveConfig)
    /\ GetInfoLocked(Cur).m_bConnected = (connOpen /\ haveInfo /\ m_bHaveConfig)
    /\ (IsConnectedLocked(Cur) => readbackSeen)

\* IsConnected is called on an open device whose info was read and whose
\* configuration was not.
C3_Witness ==
    /\ lastOp = "IsConnected"
    /\ connOpen
    /\ haveInfo
    /\ ~readbackSeen
    /\ ~IsConnectedLocked(Cur)

\* C4: CloseDevice, from any reachable state, leaves IsConnected false,
\* m_bHaveConfig false and m_bSendConfig false, and m_bHaveConfig stays false
\* across a later open until a 'g' packet is processed on the new connection.
C4_CloseResets ==
    LET c == CloseDevice(Cur)
    IN /\ ~IsConnectedLocked(c) /\ ~GetConfigOut(c).ret /\ ~c.m_bSendConfig
       /\ (lastOp = "CloseDevice"
              => ~IsConnectedLocked(Cur) /\ ~GetConfigOut(Cur).ret /\ ~m_bSendConfig)
       /\ (m_bHaveConfig => connOpen /\ readbackSeen)

\* A device that had read a configuration was closed and opened again, its
\* info is read and no readback has been processed on the new connection.
C4_Witness ==
    /\ connOpen
    /\ haveInfo
    /\ ~readbackSeen
    /\ ~m_bHaveConfig
    /\ config # [i \in 1..ConfigSize |-> 0]

\* C5: after SetConfig on a connected device with m_bHaveConfig set and no
\* write in flight, the next Update queues exactly one write carrying
\* wanted_config, followed at once by exactly one readback request, also when
\* wanted_config equals config; with no write pending Update queues no write.
C5_SetConfigAlwaysWrites ==
    LET s == UpdateSend(Cur, now)
        cmds == Enqueued(s.ev)
    IN /\ (lastOp = "SetConfig" /\ connOpen /\ m_bHaveConfig /\ ~m_bSendingConfig
             => /\ SeqCount(cmds, "w") = 1
                /\ \E i \in 1..(Len(cmds) - 1) :
                      /\ cmds[i] = Event("enq", "w", wanted_config)
                      /\ cmds[i + 1] = Event("enq", "g", <<>>)
                      /\ SeqCount(SubSeq(cmds, i + 1, Len(cmds)), "g") = 1)
       /\ (~WritePending => ~Has(s.ev, "enq", "w"))

\* SetConfig is called with the configuration read last, on a connected
\* device with no write queued or in flight.
C5_Witness ==
    /\ lastOp = "SetConfig"
    /\ connOpen
    /\ m_bHaveConfig
    /\ ~m_bSendingConfig
    /\ SeqCount(pending, "w") = 0
    /\ wanted_config = config

\* The result of Update for the pump outcome o.
UpdateFor(o) == UpdateLocked(Cur, now, o[1], o[2], o[3], o[4], o[5], o[6])

\* C6: SendCommand on a transport that is not connected queues nothing, does
\* not raise the wake event, and its completion never runs afterwards, also
\* not after a reconnect; on a connected transport it queues exactly one
\* command and raises the wake event.
C6_SendCommandNeedsConnection ==
    LET r == SendCommandLocked(Cur, "u", <<>>, "user")
    IN /\ (~connOpen => r = Cur)
       /\ (connOpen => /\ r.pending = Append(pending, Command("u", <<>>, "user"))
                       /\ r.ev = <<Event("enq", "u", <<>>), Event("wake", "u", <<>>)>>)
       /\ \A i \in 1..Len(pending) : pending[i].done # "userDead"
       /\ (connOpen => \A o \in PumpOutcomes(Cur, now) :
                          ~Has(UpdateFor(o).ev, "done", "userDead"))

\* SendCommand was called on a closed transport, the device was opened
\* afterwards and Update has run its handshake on the new connection.
C6_Witness ==
    /\ deadSend
    /\ connOpen
    /\ active
    /\ lastOp = "Update"

\* C7: Update on a transport that is not connected does nothing: no command,
\* no packet, no callback, and no change to the configuration, its flags, the
\* sensor test mode, the awaited mode, the request time or the test data.
C7_UpdateDisconnectedNoop ==
    ~connOpen =>
        \A err \in BOOLEAN, k \in 0..MaxPending, j \in 0..MaxInFlight,
           info \in BOOLEAN, inp \in BOOLEAN, yw \in TestWords :
            UpdateLocked(Cur, now, err, k, j, info, inp, yw) = Cur

\* Update has run on a closed device that has a configuration to send and a
\* sensor test mode set.
C7_Witness ==
    /\ lastOp = "Update"
    /\ ~connOpen
    /\ m_bSendConfig
    /\ WritePending
    /\ m_SensorTestMode # SensorTestMode_Off

\* The place of an event in the cycle; 0 for a callback, which several steps raise.
Rank(e) ==
    CASE e.t \in {"enq", "wake"} -> 1
      [] e.t = "pump" /\ e.c = "begin" -> 2
      [] e.t \in {"sent", "done"} -> 3
      [] e.t = "pump" -> 4
      [] e.t = "input" -> 5
      [] e.t \in {"pkt", "readback", "decoded", "log"} -> 6
      [] OTHER -> 0

\* The places of the events of a cycle, the callbacks left out.
Ranks(es) == SelectSeq([i \in 1..Len(es) |-> Rank(es[i])], LAMBDA r : r # 0)

\* The tags of a sequence of queued commands.
Tags(cmds) == [i \in 1..Len(cmds) |-> cmds[i].c]

\* The tags of the commands one cycle may queue: the handshake, the
\* configuration write with its readback, the sensor test request.
CycleTags ==
    { h \o w \o y : h \in {<<>>, <<"R", "g">>}, w \in {<<>>, <<"w", "g">>},
                    y \in {<<>>, <<"y">>} }

\* C8: a successful Update runs its steps in this order: the handshake's
\* commands, the configuration write and its readback request, the sensor
\* test request, the transport's pump, the input-changed callback, the
\* dispatch of packets; so no packet is dispatched before the pump and every
\* command of the cycle is queued before it.
C8_UpdateStepOrder ==
    connOpen =>
        \A o \in PumpOutcomes(Cur, now) :
            ~o[1] =>
                \A es \in {UpdateFor(o).ev} :
                   /\ Tags(Enqueued(es)) \in CycleTags
                   /\ Len(EventsOf(es, "pump", "begin")) = 1
                   /\ Len(EventsOf(es, "pump", "ok")) = 1
                   /\ \A rs \in {Ranks(es)} :
                         \A i \in 1..(Len(rs) - 1) : rs[i] <= rs[i + 1]
                   /\ \A i \in 1..Len(es) :
                         es[i].t = "input" /\ m_pUpdateCallback
                            => i < Len(es) /\ es[i + 1] = Event("cb", "Updated", <<>>)

\* An Update is about to run whose cycle writes the configuration, asks for
\* sensor test data, sees the inputs change and dispatches a readback.
C8_Witness ==
    /\ connOpen
    /\ m_pUpdateCallback
    /\ \E o \in PumpOutcomes(Cur, now) :
          /\ ~o[1]
          /\ \E es \in {UpdateFor(o).ev} :
                /\ Has(es, "enq", "w")
                /\ Has(es, "enq", "y")
                /\ Has(es, "input", "changed")
                /\ Has(es, "pkt", "g")

\* C9: when the transport's pump reports an error, Update returns at once
\* with the error: no input-changed callback, no packet dispatched (config,
\* m_bHaveConfig, the awaited mode and the test data are as the steps before
\* the pump left them, the packets stay buffered), and the device stays open.
C9_PumpErrorAborts ==
    connOpen =>
        \A o \in PumpOutcomes(Cur, now) :
            o[1] =>
                \A a \in {UpdateSend(Cur, now)} :
                \A p \in {ConnUpdate(a, o[2], o[3], o[4], o[5], o[6])} :
                \A s \in {UpdateFor(o)} :
                   /\ s.ev = Append(p.ev, Event("pump", "error", <<>>))
                   /\ ~Has(s.ev, "input", "changed")
                   /\ \A i \in 1..Len(s.ev) : Rank(s.ev[i]) # 6
                   /\ s.readBuf = p.readBuf
                   /\ s.config = a.config
                   /\ s.m_bHaveConfig = a.m_bHaveConfig
                   /\ s.waiting = a.waiting
                   /\ s.haveTest = a.haveTest
                   /\ s.testData = a.testData
                   /\ s.connOpen

\* An Update has failed in the pump and has left a received packet buffered.
C9_Witness ==
    /\ lastOp = "Update"
    /\ connOpen
    /\ readBuf # <<>>

\* What C10 says of the callback: the completion of FactoryReset's readback
\* request raises FactoryResetCommandComplete, once, and raises nothing else.
FactoryResetCallback ==
    connOpen =>
        \A o \in PumpOutcomes(Cur, now) :
            \A es \in {UpdateFor(o).ev} :
               /\ Len(EventsOf(es, "done", "freset"))
                     <= Cardinality({i \in 1..Len(pending) : pending[i].done = "freset"})
               /\ Len(EventsOf(es, "cb", "FactoryResetCommandComplete"))
                     = (IF m_pUpdateCallback THEN Len(EventsOf(es, "done", "freset")) ELSE 0)
               /\ \A i \in 1..Len(es) :
                     es[i] = Event("done", "freset", <<>>) /\ m_pUpdateCallback
                        => /\ es[i + 1] = Event("cb", "FactoryResetCommandComplete", <<>>)
                           /\ es[i + 2].t # "cb"

\* C10, as amended: FactoryReset on a connected device queues the factory
\* reset command and, at once and behind it, the readback request; the
\* completion of that request raises FactoryResetCommandComplete exactly once
\* and not Updated.
C10_FactoryResetQueuesBoth ==
    /\ (connOpen =>
           LET r == FactoryResetLocked(Cur)
           IN /\ r.pending = pending \o <<Command("f", <<>>, "none"),
                                          Command("g", <<>>, "freset")>>
              /\ Enqueued(r.ev) = <<Event("enq", "f", <<>>), Event("enq", "g", <<>>)>>)
    /\ \A i \in 1..Len(pending) :
          pending[i].done = "freset" => i = 1 \/ pending[i - 1].c = "f"
    /\ FactoryResetCallback

\* C10 as stated: FactoryReset queues the factory reset command only, and the
\* readback request is queued once that command's completion has run, so the
\* two are never queued together.
C10_ReadbackAfterCompletion ==
    /\ (connOpen =>
           Enqueued(FactoryResetLocked(Cur).ev) = <<Event("enq", "f", <<>>)>>)
    /\ \A i, j \in 1..Len(pending) :
          i < j => ~(pending[i].c = "f" /\ pending[j].done = "freset")
    /\ FactoryResetCallback

\* FactoryReset was called on a connected device with a callback registered,
\* and the next Update may complete its readback request.
C10_Witness ==
    /\ lastOp = "FactoryReset"
    /\ connOpen
    /\ m_pUpdateCallback
    /\ \E o \in PumpOutcomes(Cur, now) :
          Has(UpdateFor(o).ev, "cb", "FactoryResetCommandComplete")

\* C11: GetTestData returns nothing until a sensor test response was accepted
\* and decoded since the mode was last enabled or changed: in every reachable
\* state, right after SetSensorTestMode changes the mode GetTestData returns
\* nothing.  SetSensorTestMode leaves m_HaveSensorTestModeData set, so data
\* decoded for the old mode is still returned.
C11_NoDataAfterModeChange ==
    \A mode \in SensorTestModes :
        mode # m_SensorTestMode => ~GetTestDataOut(SetSensorTestModeTo(Cur, mode))

\* C12: when a request for one mode is outstanding and a response echoing
\* another mode is received, the response is discarded and the awaited mode is
\* cleared to Off.  HandleSensorTestDataResponse returns on the mismatch
\* before it clears m_WaitingForSensorTestModeResponse.
C12_MismatchClearsAwaiting ==
    \A mode \in SensorTestModes \ {SensorTestMode_Off}, ws \in TestWords :
        (m_WaitingForSensorTestModeResponse # SensorTestMode_Off
            /\ mode # m_WaitingForSensorTestModeResponse)
        => \A r \in {HandleSensorTestDataResponse(Cur, YPacket(mode, ws))} :
              /\ r.testData = m_SensorTestData
              /\ r.haveTest = m_HaveSensorTestModeData
              /\ r.waiting = SensorTestMode_Off

\* A request is outstanding and a response to an earlier request for another
\* mode is in flight from the pad.
C12_Witness ==
    /\ connOpen
    /\ m_WaitingForSensorTestModeResponse # SensorTestMode_Off
    /\ \E i \in 1..Len(devOut) :
          /\ devOut[i][1] = TagY
          /\ devOut[i][2] # m_WaitingForSensorTestModeResponse

\* C13: an Update on a connected transport queues a sensor test request if
\* and only if m_SensorTestMode is not Off and either no request is
\* outstanding or at least 2000 ms have passed since the last one was sent;
\* the request carries m_SensorTestMode, which becomes the awaited mode, and
\* the time of the request becomes the current time; otherwise both are kept.
C13_RequestWhenDue ==
    connOpen =>
        \A s \in {UpdateSend(Cur, now)} :
            LET ys == EventsOf(s.ev, "enq", "y")
                due == /\ m_SensorTestMode # SensorTestMode_Off
                       /\ \/ m_WaitingForSensorTestModeResponse = SensorTestMode_Off
                          \/ now - m_SentSensorTestModeRequestAtTicks >= TestModeTimeout
            IN IF due
               THEN /\ ys = <<Event("enq", "y", <<m_SensorTestMode>>)>>
                    /\ s.waiting = m_SensorTestMode
                    /\ s.sentAt = now
               ELSE /\ ys = <<>>
                    /\ s.waiting = m_WaitingForSensorTestModeResponse
                    /\ s.sentAt = m_SentSensorTestModeRequestAtTicks

\* A request has been outstanding for exactly 2000 ms on a connected device.
C13_Witness ==
    /\ connOpen
    /\ m_SensorTestMode # SensorTestMode_Off
    /\ m_WaitingForSensorTestModeResponse # SensorTestMode_Off
    /\ now - m_SentSensorTestModeRequestAtTicks = TestModeTimeout

\* C14: the activation handshake, a panel reset followed by a readback
\* request, is queued exactly once per connection: by the first Update that
\* finds the device info read, never before, and by no later Update of the
\* same connection.
C14_HandshakeOnce ==
    /\ handshakes <= 1
    /\ (connOpen => (handshakes = 1) = active)
    /\ (connOpen =>
           \A cmds \in {Enqueued(UpdateSend(Cur, now).ev)} :
              IF haveInfo /\ handshakes = 0
              THEN /\ Len(cmds) >= 2
                   /\ cmds[1] = Event("enq", "R", <<>>)
                   /\ cmds[2] = Event("enq", "g", <<>>)
                   /\ SeqCount(cmds, "R") = 1
              ELSE SeqCount(cmds, "R") = 0)

\* The handshake was queued on this connection and a later Update of the
\* same connection has queued a configuration write.
C14_Witness ==
    /\ lastOp = "Update"
    /\ connOpen
    /\ handshakes = 1
    /\ m_bSendingConfig
    /\ SeqCount(pending, "w") = 1

\* C15: CloseDevice resets the bookkeeping of the write in flight: after it
\* m_bSendingConfig is false, also when a write was queued whose completion
\* never runs.  CloseDevice clears m_bHaveConfig and m_bSendConfig only.
C15_CloseClearsInFlight ==
    /\ ~CloseDevice(Cur).m_bSendingConfig
    /\ (lastOp = "CloseDevice" => ~m_bSendingConfig)

\* The device was closed with a write in flight and opened again; its
\* configuration was read back, SetConfig was called, and Update has run
\* without queueing the write.
C15_Witness ==
    /\ lastOp = "Update"
    /\ connOpen
    /\ m_bHaveConfig
    /\ WritePending
    /\ m_bSendingConfig
    /\ pending = <<>>

\* C16: CloseDevice resets the state of the outstanding sensor test request
\* and the data received last: the awaited mode becomes Off and GetTestData
\* returns nothing, while m_SensorTestMode is kept.  CloseDevice touches none
\* of the sensor test members.
C16_CloseResetsTestState ==
    \A c \in {CloseDevice(Cur)} :
        /\ c.m_SensorTestMode = m_SensorTestMode
        /\ c.waiting = SensorTestMode_Off
        /\ ~GetTestDataOut(c)

\* The device was closed with a request outstanding and test data held, and
\* both are still there.
C16_Witness ==
    /\ lastOp = "CloseDevice"
    /\ m_WaitingForSensorTestModeResponse # SensorTestMode_Off
    /\ m_HaveSensorTestModeData

\* C17: with a callback registered, Updated is raised within the operation
\* by CloseDevice, by every configuration readback processed, by a change of
\* the inputs across the pump and by every sensor test response decoded; and
\* every operation that changes what IsConnected returns raises it.  An Update
\* whose pump reads the device info after a readback was processed makes
\* IsConnected true and raises nothing.
C17_CallbackOnChange ==
    m_pUpdateCallback =>
        /\ Has(CloseDevice(Cur).ev, "cb", "Updated")
        /\ (connOpen =>
               \A o \in PumpOutcomes(Cur, now) :
                   \A s \in {UpdateFor(o)} :
                       /\ \A i \in 1..Len(s.ev) :
                             \/ s.ev[i].t = "readback"
                             \/ s.ev[i].t = "decoded"
                             \/ s.ev[i].t = "input"
                             => /\ i < Len(s.ev)
                                /\ s.ev[i + 1] = Event("cb", "Updated", <<>>)
                       /\ (IsConnectedLocked(s) # IsConnectedLocked(Cur)
                              => Has(s.ev, "cb", "Updated")))

\* A callback is registered and a readback was processed on a connection
\* whose device info is not read yet.
C17_Witness ==
    /\ m_pUpdateCallback
    /\ connOpen
    /\ m_bHaveConfig
    /\ ~haveInfo

\* C20: an Update queues a configuration write if and only if the transport
\* is connected and, at the SendConfig step, m_bHaveConfig and m_bSendConfig
\* are set and m_bSendingConfig is not; so no write is queued on a connection
\* before its first readback was processed.
C20_WriteOnlyWhenReady ==
    \A es \in {UpdateLocked(Cur, now, FALSE, 0, 0, FALSE, FALSE, <<>>).ev} :
        /\ Has(es, "enq", "w")
              = (connOpen /\ m_bHaveConfig /\ m_bSendConfig /\ ~m_bSendingConfig)
        /\ (Has(es, "enq", "w") => readbackSeen)

\* Update has run on a connection whose device info is read, with a write
\* pending and no readback processed yet: the write is still pending.
C20_Witness ==
    /\ lastOp = "Update"
    /\ connOpen
    /\ haveInfo
    /\ ~readbackSeen
    /\ m_bSendConfig
    /\ WritePending

\* Bit k of panel p in the response buf: bit p of its word k, 0 past the end.
PanelBit(buf, p, k) ==
    IF k < buf[3] THEN BitOf(buf[2 * k + 4] + 256 * buf[2 * k + 5], p) ELSE 0

\* The value of bits k..k+n-1 of panel p, lowest bit first.
RECURSIVE PanelBits(_, _, _, _)
PanelBits(buf, p, k, n) ==
    IF n = 0 THEN 0 ELSE PanelBit(buf, p, k) + 2 * PanelBits(buf, p, k + 1, n - 1)

\* What the response buf says of panel p.
PanelOf(buf, p) ==
    IF <<PanelBit(buf, p, 0), PanelBit(buf, p, 1), PanelBit(buf, p, 2)>> = <<0, 1, 0>>
    THEN [have |-> TRUE,
          bad |-> [i \in 1..NumSensors |-> PanelBit(buf, p, 2 + i)],
          sensors |-> [i \in 1..NumSensors |->
                          PanelBits(buf, p, 16 * i - 8, 15)
                             - 32768 * PanelBit(buf, p, 16 * i + 7)],
          dip |-> PanelBits(buf, p, 72, 4)]
    ELSE [have |-> FALSE, bad |-> [i \in 1..NumSensors |-> 0],
          sensors |-> [i \in 1..NumSensors |-> 0], dip |-> 0]

\* C19: when a sensor test response is accepted, the whole test data is
\* computed from that response alone, whatever was decoded before: each of
\* the 9 panels has data iff its first three bits are 0, 1, 0, and then its
\* bad-sensor flags, four readings and DIP value are those of the response;
\* otherwise they are all zero, and the other panels are decoded all the same.
C19_DecodeFromResponseAlone ==
    \A i \in 1..Len(readBuf) :
        \A buf \in {readBuf[i]} :
            (/\ buf[1] = TagY
             /\ buf[2] = m_SensorTestMode
             /\ buf[2] = m_WaitingForSensorTestModeResponse
             /\ m_SensorTestMode # SensorTestMode_Off)
            => \A r \in {HandleSensorTestDataResponse(Cur, buf)} :
                  /\ r.haveTest
                  /\ r.testData = [p \in 0..(NumPanels - 1) |-> PanelOf(buf, p)]

\* A response was decoded in which panel 0 has a bad header and panel 1 has
\* a negative reading, a bad-sensor flag and DIP switches set.
C19_Witness ==
    /\ readBuf = <<>>
    /\ m_HaveSensorTestModeData
    /\ ~m_SensorTestData[0].have
    /\ m_SensorTestData[0].sensors = <<0, 0, 0, 0>>
    /\ m_SensorTestData[1].have
    /\ m_SensorTestData[1].sensors[1] < 0
    /\ m_SensorTestData[1].bad[1] = 1
    /\ m_SensorTestData[1].dip = 15

\* The threads that have taken m_Lock in an operation and not yet left it.
InBody == {t \in Threads : thread[t].at = "body"}

ReadbacksOutstanding(st) ==
    SeqCount(st.pending, "g")
      + Cardinality({i \in 1..Len(st.devOut) : st.devOut[i][1] = TagG})
      + Cardinality({i \in 1..Len(st.readBuf) : st.readBuf[i][1] = TagG})

\* C21: an Update that queues a write of wanted_config sets config to it and
\* clears m_bSendConfig in the same step, and while the readback queued after
\* that write has not been processed GetConfig returns the written value,
\* also when the readback of an earlier request is processed in between.
C21_WrittenValueObserved ==
    connOpen =>
      \A o \in PumpOutcomes(Cur, now) :
         \A s \in {UpdateFor(o)} :
            Has(s.ev, "enq", "w") =>
               /\ \A u \in {SendConfig(CheckActive(Cur))} :
                     u.config = wanted_config /\ ~u.m_bSendConfig
               /\ ~s.m_bSendConfig
               /\ (ReadbacksOutstanding(s) > 0 =>
                     GetConfigOut(s).configOut = wanted_config)

\* A write is still queued on the transport and GetConfig returns a value
\* that is not the one written.
C21_Witness ==
    /\ lastOp = "Update"
    /\ connOpen
    /\ SeqCount(pending, "w") = 1
    /\ ~m_bSendConfig
    /\ GetConfigOut(Cur).configOut # wanted_config

\* The Updated callbacks among the events es.
UpdatedCallbacks(es) == Len(EventsOf(es, "cb", "Updated"))

\* C22: processing a buffered 'g' packet whose declared length L fits in the
\* packet copies min(L, ConfigSize) payload bytes into the leading bytes of
\* config, leaves the other bytes of config as they were, sets m_bHaveConfig
\* and calls the update callback once with Updated (the callback registered).
C22_ReadbackCopiesPrefix ==
    \A i \in 1..Len(readBuf) :
       \A buf \in {readBuf[i]} :
          (buf[1] = TagG /\ Len(buf) >= 2 /\ Len(buf) >= buf[2] + 2) =>
             \A r \in {HandleConfigPacket(Cur, buf)} :
                /\ \A b \in 1..ConfigSize :
                      r.config[b] = (IF b <= buf[2] THEN buf[b + 2] ELSE config[b])
                /\ r.m_bHaveConfig
                /\ UpdatedCallbacks(r.ev) = (IF m_pUpdateCallback THEN 1 ELSE 0)
                /\ Len(EventsOf(r.ev, "cb", "FactoryResetCommandComplete")) = 0

\* A readback of one byte was processed: the first byte of config is the
\* packet's, the second is the one config held before.
C22_Witness ==
    /\ lastOp = "Update"
    /\ readBuf = <<>>
    /\ m_bHaveConfig
    /\ config = <<PacketPayload[1], 1>>

\* The packet buf has the tag 'g' and declares more payload than it holds.
ShortConfigPacket(buf) == buf[1] = TagG /\ Len(buf) >= 2 /\ Len(buf) < buf[2] + 2

\* C23: when HandlePackets meets a 'g' packet whose declared length exceeds
\* the bytes it holds, config and m_bHaveConfig stay as they are, no callback
\* is called, and no packet buffered behind it is dispatched in the same
\* Update: that packet is the last one HandlePackets takes.
C23_MalformedStopsDispatch ==
    (readBuf # <<>> /\ ShortConfigPacket(Head(readBuf))) =>
       \A r \in {HandlePackets(Cur)} :
          /\ r.config = config
          /\ r.m_bHaveConfig = m_bHaveConfig
          /\ ~\E i \in 1..Len(r.ev) : r.ev[i].t = "cb"
          /\ Len(SelectSeq(r.ev, LAMBDA e : e.t = "pkt")) = 1
          /\ r.readBuf = Tail(readBuf)

\* A well-formed readback is buffered behind a 'g' packet that declares more
\* payload than it holds.
C23_Witness ==
    /\ connOpen
    /\ Len(readBuf) = 2
    /\ ShortConfigPacket(readBuf[1])
    /\ readBuf[2] = GPacket(PacketPayload)

\* An operation's result r differs from the state st it started in by
\* nothing but what it logged.
OnlyLogged(r, st) ==
    /\ [r EXCEPT !.ev = <<>>] = st
    /\ \A i \in 1..Len(r.ev) : r.ev[i].t = "log"

\* C24: a sensor test response that arrives when no request is outstanding,
\* or that echoes a mode other than the awaited one, is dropped: the awaited
\* mode, the time of the request, the selected mode, the test data and the
\* have-data flag stay as they are and no callback is called.
C24_StaleResponseDropped ==
    \A mode \in SensorTestModes \ {SensorTestMode_Off}, ws \in TestWords :
       (\/ m_WaitingForSensorTestModeResponse = SensorTestMode_Off
        \/ mode # m_WaitingForSensorTestModeResponse)
       => OnlyLogged(HandleSensorTestDataResponse(Cur, YPacket(mode, ws)), Cur)

\* A response is in flight while no request is outstanding and data of an
\* earlier response is held.
C24_Witness ==
    /\ connOpen
    /\ m_WaitingForSensorTestModeResponse = SensorTestMode_Off
    /\ m_HaveSensorTestModeData
    /\ \E i \in 1..Len(devOut) : devOut[i][1] = TagY

\* C25: when the selected mode was changed (to another mode or to Off) while
\* a request is outstanding, the response echoing the awaited mode sets the
\* awaited mode to Off and is not decoded: the test data and the have-data
\* flag stay as they are and the update callback is not called; and while
\* the request is outstanding and less than TestModeTimeout has passed,
\* Update queues no request for the new mode.
C25_ModeChangedInFlight ==
    (/\ m_WaitingForSensorTestModeResponse # SensorTestMode_Off
     /\ m_SensorTestMode # m_WaitingForSensorTestModeResponse)
    => /\ \A ws \in TestWords :
             \A r \in {HandleSensorTestDataResponse(
                          Cur, YPacket(m_WaitingForSensorTestModeResponse, ws))} :
                /\ r.waiting = SensorTestMode_Off
                /\ r.testData = m_SensorTestData
                /\ r.haveTest = m_HaveSensorTestModeData
                /\ r.m_SensorTestMode = m_SensorTestMode
                /\ ~\E i \in 1..Len(r.ev) : r.ev[i].t = "cb"
       /\ (connOpen /\ now - m_SentSensorTestModeRequestAtTicks < TestModeTimeout)
             => ~Has(UpdateSend(Cur, now).ev, "enq", "y")

\* The response to the request for one mode is in flight, another mode is
\* selected, and data of an earlier response is held.
C25_Witness ==
    /\ connOpen
    /\ m_WaitingForSensorTestModeResponse # SensorTestMode_Off
    /\ m_SensorTestMode \notin {SensorTestMode_Off, m_WaitingForSensorTestModeResponse}
    /\ m_HaveSensorTestModeData
    /\ now - m_SentSensorTestModeRequestAtTicks < TestModeTimeout
    /\ \E i \in 1..Len(devOut) :
          devOut[i][1] = TagY /\ devOut[i][2] = m_WaitingForSensorTestModeResponse

\* C26: for a buffered sensor test response with n words, for every panel p
\* in 0..8 and every bit index k of the panel's record, bit k mod 8 of byte
\* k div 8 that ReadDataForPanel writes is bit p of word k when k < n and 0
\* otherwise: every panel is read from the same words, starting at word 0.
C26_BitUnpacking ==
    \A i \in 1..Len(readBuf) :
       \A buf \in {readBuf[i]} :
          (buf[1] = TagY /\ Len(buf) = 3 + 2 * buf[3]) =>
             \A data \in {[k \in 1..buf[3] |-> buf[2 * k + 2] + 256 * buf[2 * k + 3]]} :
                \A p \in 0..(NumPanels - 1) :
                   \A bytes \in {ReadDataForPanel(data, p, DetailSize)} :
                      /\ Len(bytes) = DetailSize
                      /\ \A k \in 0..(8 * DetailSize - 1) :
                            BitOf(bytes[(k \div 8) + 1], k % 8)
                               = (IF k < Len(data) THEN BitOf(data[k + 1], p) ELSE 0)

\* A response of ten words was decoded: panel 1's first reading holds the
\* two bits the response has of it and the rest of the record is 0.
C26_Witness ==
    /\ lastOp = "Update"
    /\ readBuf = <<>>
    /\ m_HaveSensorTestModeData
    /\ m_SensorTestData[1].have
    /\ m_SensorTestData[1].sensors = <<3, 0, 0, 0>>
    /\ m_SensorTestData[1].dip = 0
    /\ ~m_SensorTestData[0].have

\* C27: a buffered sensor test response that declares n words, n in 0..255,
\* and holds fewer than 3 + 2n bytes is not decoded and changes nothing; one
\* that holds them all is decoded from exactly n words.
C27_WordCountNoWrap ==
    \A i \in 1..Len(readBuf) :
       \A buf \in {readBuf[i]} :
          (buf[1] = TagY /\ Len(buf) >= 3) =>
             \A r \in {HandleSensorTestDataResponse(Cur, buf)} :
                IF Len(buf) < 3 + 2 * buf[3]
                THEN r = Cur
                ELSE \A j \in 1..Len(r.ev) :
                        r.ev[j].t = "decoded" => Len(r.ev[j].d) = buf[3]

\* The session holds test data that is all zero: a response declaring 128
\* or more words and holding none of them was decoded.
C27_Witness ==
    /\ lastOp = "Update"
    /\ readBuf = <<>>
    /\ m_HaveSensorTestModeData
    /\ m_SensorTestData = ZeroTestData
    /\ m_WaitingForSensorTestModeResponse = SensorTestMode_Off

\* C29: SetConfig queues no command; and if SetConfig was called on an open
\* device, whether or not its configuration was read yet, then with Update
\* called repeatedly and the transport catching up, a write of wanted_config
\* is queued and m_bSendConfig cleared, unless SetConfig is called again or
\* the device is closed before.
C29_SetConfigEventuallyWritten ==
    /\ (lastOp = "Update" /\ WritePending /\ connOpen)
          ~> (~WritePending \/ lastOp = "SetConfig")
    /\ [][lastOp' = "SetConfig" => pending' = pending /\ devOut' = devOut]_vars

\* SetConfig was just called on an open device whose configuration is known
\* and whose transport has nothing queued, in flight or buffered, while
\* m_bSendingConfig is set: no completion is left to clear it.
C29_Witness ==
    /\ lastOp = "SetConfig"
    /\ connOpen /\ haveInfo /\ active
    /\ pending = <<>> /\ devOut = <<>> /\ readBuf = <<>>
    /\ m_bHaveConfig
    /\ m_bSendConfig /\ m_bSendingConfig
    /\ UpdateSend(Cur, now).pending = <<>>

\* C28: a readback processed while a write is pending (SetConfig called, the
\* write not yet queued) overwrites config and leaves wanted_config and
\* m_bSendConfig as they are, so that GetConfig still returns wanted_config;
\* and the pending write is queued by a later Update: from an Update on an
\* open device whose configuration is still to be read back, with a write
\* pending, a state is reached where the write is no longer pending, unless
\* SetConfig is called again.
C28_ReadbackKeepsPendingWrite ==
    /\ [](m_bSendConfig =>
            \A cfg \in Configs :
               \A r \in {HandleConfigPacket(Cur, GPacket(cfg))} :
                  /\ r.config = cfg
                  /\ r.wanted_config = wanted_config
                  /\ r.m_bSendConfig
                  /\ GetConfigOut(r).configOut = wanted_config)
    /\ (lastOp = "Update" /\ connOpen /\ m_bSendConfig /\ ~m_bHaveConfig)
          ~> (~m_bSendConfig \/ lastOp = "SetConfig")

\* A readback was processed while a write was pending: config holds the
\* pad's value, GetConfig returns wanted_config, and the write is pending.
C28_Witness ==
    /\ lastOp = "Update"
    /\ connOpen
    /\ m_bHaveConfig
    /\ m_bSendConfig
    /\ pendingH = "pending"
    /\ config # wanted_config
    /\ GetConfigOut(Cur).configOut = wanted_config
====
